---- MODULE Spec2Model ----
(***************************************************************************)
(* Model of htmlAndZipVer10.py: the archive installer                      *)
(* (download_and_install_ftb_pack_from_link), the scrape installer         *)
(* (download_and_install_ftb_pack_from_html) and the launcher_profiles.json *)
(* update both of them end with.  Every invocation of the script is a      *)
(* process.  Spec is one invocation of either installer, SpecRerun is the  *)
(* archive installer invoked again and again on the same directory, and    *)
(* SpecConc is two invocations of the scrape installer interleaved against *)
(* the same registry file.                                                 *)
(***************************************************************************)
EXTENDS Integers, Sequences, FiniteSets, TLC

\* Number of invocations of the script in SpecRerun.
MaxRuns == 2

Procs == {1, 2}

----------------------------------------------------------------------------
(* Strings *)

startswith(s, prefix) ==
    Len(s) >= Len(prefix) /\ SubSeq(s, 1, Len(prefix)) = prefix

endswith(s, suffix) ==
    Len(s) >= Len(suffix) /\ SubSeq(s, Len(s) - Len(suffix) + 1, Len(s)) = suffix

\* pathlib's "/" on resolved paths
Join(a, b) == a \o "/" \o b

\* Path(link).name: the final path segment
PathName(s) ==
    LET slashes == {i \in 1..Len(s) : SubSeq(s, i, i) = "/"}
        last == IF slashes = {} THEN 0
                ELSE CHOOSE i \in slashes : \A j \in slashes : j <= i
    IN  SubSeq(s, last + 1, Len(s))

\* The URL has the scheme http or https.  Of the URLs that begin with the
\* letters "http", these are the ones urllib opens; for the others
\* urlretrieve raises before anything is sent.
IsHttpScheme(u) == startswith(u, "http://") \/ startswith(u, "https://")

----------------------------------------------------------------------------
(* Inputs *)

\* Path(minecraft_dir).expanduser().resolve()
minecraft_path == "/mc"

PackNames == {"A", "BB"}
Versions == {"1.12", "1.20.1"}

URLs == {"http://h/p.zip", "https://h/p.zip", "httpx://h/p.zip",
         "ftp://h/p.zip", "http://h/p.rar", "p.zip"}

\* Members of an archive, in archive order: dir is the top-level folder
\* ("" for the root).
Member(d, n) == [dir |-> d, name |-> n]
Archives == { <<Member("", "readme.txt")>>,
              <<Member("mods", "a.jar"), Member("config", "c.cfg"),
                Member("libraries", "l.jar")>> }
NoArchive == <<Member("none", "none")>>
NotAZip == <<Member("notazip", "notazip")>>
PartialZip == <<Member("partial", "partial")>>

\* The hrefs of the anchors of each HTML file ("" for an anchor without href).
HtmlFiles == {"spec.html", "other.html", "missing.html"}
HtmlReadable(h) == h # "missing.html"
HtmlAnchors(h) ==
    IF h = "spec.html" THEN <<"/l/a.jar", "http://u/b.zip", "n.txt">>
    ELSE IF h = "other.html" THEN <<"rel/c.zip", "">>
    ELSE <<>>

\* os.path.isfile
LocalFiles == {"/l/a.jar"}

----------------------------------------------------------------------------
(* File contents of launcher_profiles.json and its backup *)

Absent == [shape |-> "absent"]
EmptyFile == [shape |-> "text", bytes |-> ""]
Text(b) == [shape |-> "text", bytes |-> b]
\* Valid JSON that is not a document with a profiles mapping.
Json(v) == [shape |-> "json", value |-> v]
DocFile(fmt, d) == [shape |-> "doc", fmt |-> fmt, doc |-> d]
PartialFile(d) == [shape |-> "partial", of |-> d]
GarbledFile(head, size) == [shape |-> "garbled", head |-> head, size |-> size]

Entry(name, type, version, gameDir) ==
    [name |-> name, type |-> type,
     created |-> "2024-01-01T00:00:00.000Z",
     lastUsed |-> "2024-01-01T00:00:00.000Z",
     icon |-> "Furnace", lastVersionId |-> version,
     javaDir |-> "", javaArgs |-> "-Xmx4G", gameDir |-> gameDir]

Doc(profiles, settings, version) ==
    [profiles |-> profiles, settings |-> settings, version |-> version]

DefaultDoc == Doc(<<>>, "empty", 2)

EntrySize(k, e) ==
    Len("\"\": {\"name\": \"\", \"type\": \"\", \"created\": \"\", ")
    + Len("\"lastUsed\": \"\", \"icon\": \"\", \"lastVersionId\": \"\", ")
    + Len("\"javaDir\": \"\", \"javaArgs\": \"\", \"gameDir\": \"\"},")
    + Len(k) + Len(e.name) + Len(e.type) + Len(e.created) + Len(e.lastUsed)
    + Len(e.icon) + Len(e.lastVersionId) + Len(e.javaDir) + Len(e.javaArgs)
    + Len(e.gameDir)

RECURSIVE SumSizes(_, _)
SumSizes(f, keys) ==
    IF keys = {} THEN 0
    ELSE LET k == CHOOSE x \in keys : TRUE
         IN  EntrySize(k, f[k]) + SumSizes(f, keys \ {k})

DocSize(d) ==
    Len("{\"profiles\": {}, \"settings\": {}, \"version\": 2}")
    + SumSizes(d.profiles, DOMAIN d.profiles)

\* Length in bytes of a file.
Size(c) ==
    CASE c.shape = "absent" -> 0
      [] c.shape = "text" -> Len(c.bytes)
      [] c.shape = "json" -> Len(c.value)
      [] c.shape = "doc" -> DocSize(c.doc)
      [] c.shape = "partial" -> DocSize(c.of) \div 2
      [] c.shape = "garbled" -> c.size

----------------------------------------------------------------------------
(* json.load, json.dump and the write of a file opened with mode 'w' *)

MemDoc(d) == [shape |-> "doc", doc |-> d]
None == [shape |-> "none"]
JSONDecodeError == [shape |-> "JSONDecodeError"]

\* json.load on the content of an existing file
json_load(c) ==
    CASE c.shape = "doc" -> MemDoc(c.doc)
      [] c.shape = "json" -> c
      [] OTHER -> JSONDecodeError

\* json.dump(profiles_data, f, indent=4)
json_dump(d) == DocFile("indent4", d)

\* Bytes written at offset 0 of a file that holds c: what lies beyond the
\* new bytes stays in the file.
WriteAt0(c, new) ==
    IF Size(c) <= Size(new) THEN new ELSE GarbledFile(new, Size(c))

\* profiles_data["profiles"][profile_id] = {...} succeeds on a document whose
\* "profiles" is a mapping, and raises KeyError or TypeError on any other
\* JSON value.
HasProfilesMapping(m) == m.shape = "doc"

\* Variant: the profiles mapping is rebuilt with the new entry alone.
SetProfileEntry_DropsOthers(d, profile_id, e) ==
    Doc([k \in {profile_id} |-> e], d.settings, d.version)

\* Variant: an existing name is kept and the new entry is added beside it.
SetProfileEntry_Appends(d, profile_id, e) ==
    LET key == IF profile_id \in DOMAIN d.profiles
               THEN profile_id \o " (2)" ELSE profile_id
    IN  Doc([k \in (DOMAIN d.profiles) \cup {key} |->
                IF k = key THEN e ELSE d.profiles[k]],
            d.settings, d.version)

SetProfileEntry(d, profile_id, e) ==
    Doc([k \in (DOMAIN d.profiles) \cup {profile_id} |->
             IF k = profile_id THEN e ELSE d.profiles[k]],
        d.settings, d.version)

----------------------------------------------------------------------------
(* State *)

VARIABLES
    pc,             \* position of each invocation
    args,           \* its arguments
    out,            \* what it printed or prompted, in order
    exc,            \* the uncaught exception that ended it, "" if none
    profiles_data,  \* the document in memory
    mod_links,      \* the collected links of the scrape installer
    idx,            \* position of the loop over mod_links
    processed,      \* the links the loop has handled, in order
    start,          \* registry, backup and file system when the run began
    net,            \* URLs requested over the network by the run
    moved,          \* items relocated by the run
    sawWrite,       \* runs whose document was on disk when this one read
    fs,             \* paths that exist
    zip_file,       \* content of instances/<pack_name>/pack.zip
    registry,       \* content of launcher_profiles.json
    backup,         \* content of launcher_profiles.json.bak
    runs,           \* invocations so far
    lastArchive,    \* archive of the last successful install of each pack name
    wrote,          \* runs that completed their write
    lastWriter      \* the run that completed its write last, 0 if none

procVars == <<pc, args, out, exc, profiles_data, mod_links, idx, processed,
              start, net, moved, sawWrite>>
diskVars == <<fs, zip_file, registry, backup>>
histVars == <<runs, lastArchive, wrote, lastWriter>>
vars == <<procVars, diskVars, histVars>>

instances_dir == Join(minecraft_path, "instances")
profiles_path == Join(minecraft_path, "launcher_profiles.json")
mods_dir == Join(minecraft_path, "mods")
pack_instance_dir(p) == Join(instances_dir, args[p].pack_name)
zip_file_path(p) == Join(pack_instance_dir(p), "pack.zip")
TargetRoot(p) == Join(pack_instance_dir(p), "minecraft")

\* gameDir of the new entry: line 107 for the archive installer, line 204 for
\* the scrape installer
GameDir(p) ==
    IF args[p].kind = "link" THEN TargetRoot(p) ELSE minecraft_path

Args ==
    [kind : {"link"}, pack_url : URLs, html_file_path : {""}, pack_name : PackNames]
    \cup
    [kind : {"html"}, pack_url : {""}, html_file_path : HtmlFiles, pack_name : PackNames]

NoArgs == [kind |-> "none", pack_url |-> "", html_file_path |-> "", pack_name |-> ""]

VanillaEntry == Entry("Vanilla", "latest-release", "1.8", minecraft_path)
OldEntry == Entry("A", "custom", "1.7", "/old")

InitRegistries ==
    { Absent,
      Text("{not json"),
      Json("{}"),
      Json("{\"profiles\": []}"),
      DocFile("compact", Doc([k \in {"Vanilla"} |-> VanillaEntry], "custom", 3)),
      DocFile("compact",
              Doc([k \in {"Vanilla", "A"} |->
                      IF k = "A" THEN OldEntry ELSE VanillaEntry], "empty", 2)) }

InitBackups == {Absent, Text("old backup")}

\* The directory as the archive installer leaves it after installing pack n
\* from archive a.
InstalledFs(n, a) ==
    LET inst == Join(Join(Join(minecraft_path, "instances"), n), "minecraft")
        dir == Join(Join(minecraft_path, "instances"), n)
    IN  {minecraft_path, Join(minecraft_path, "instances"), dir,
         Join(dir, "pack.zip"), inst,
         Join(inst, "mods"), Join(inst, "config"), Join(inst, "libraries")}
        \cup {Join(dir, a[i].dir) : i \in {j \in 1..Len(a) : a[j].dir # ""}}
        \cup {IF a[i].dir = "" THEN Join(dir, a[i].name)
              ELSE Join(Join(inst, a[i].dir), a[i].name) : i \in 1..Len(a)}

FullArchive == CHOOSE a \in Archives : Len(a) > 1

Init ==
    /\ pc = [p \in Procs |-> "idle"]
    /\ args = [p \in Procs |-> NoArgs]
    /\ out = [p \in Procs |-> <<>>]
    /\ exc = [p \in Procs |-> ""]
    /\ profiles_data = [p \in Procs |-> None]
    /\ mod_links = [p \in Procs |-> <<>>]
    /\ idx = [p \in Procs |-> 1]
    /\ processed = [p \in Procs |-> <<>>]
    /\ registry \in InitRegistries
    /\ backup \in InitBackups
    /\ \/ /\ fs = {minecraft_path}
          /\ zip_file = [n \in PackNames |-> NoArchive]
       \/ /\ fs = InstalledFs("A", FullArchive)
          /\ zip_file = [n \in PackNames |->
                            IF n = "A" THEN FullArchive ELSE NoArchive]
    /\ start = [p \in Procs |-> [registry |-> registry, backup |-> backup, fs |-> fs]]
    /\ net = [p \in Procs |-> {}]
    /\ moved = [p \in Procs |-> {}]
    /\ sawWrite = [p \in Procs |-> {}]
    /\ runs = 0
    /\ lastArchive = [n \in PackNames |-> NoArchive]
    /\ wrote = {}
    /\ lastWriter = 0

Say(p, msg, arg) == out' = [out EXCEPT ![p] = Append(@, <<msg, arg>>)]
Goto(p, label) == pc' = [pc EXCEPT ![p] = label]
Raise(p, e) == pc' = [pc EXCEPT ![p] = "crashed"] /\ exc' = [exc EXCEPT ![p] = e]

----------------------------------------------------------------------------
(* main: one invocation of the script *)

Begin(p, a) ==
    /\ args' = [args EXCEPT ![p] = a]
    /\ pc' = [pc EXCEPT ![p] = IF a.kind = "link" THEN "check" ELSE "parse"]
    /\ out' = [out EXCEPT ![p] = <<>>]
    /\ exc' = [exc EXCEPT ![p] = ""]
    /\ profiles_data' = [profiles_data EXCEPT ![p] = None]
    /\ mod_links' = [mod_links EXCEPT ![p] = <<>>]
    /\ idx' = [idx EXCEPT ![p] = 1]
    /\ processed' = [processed EXCEPT ![p] = <<>>]
    /\ start' = [start EXCEPT ![p] =
                    [registry |-> registry, backup |-> backup, fs |-> fs]]
    /\ net' = [net EXCEPT ![p] = {}]
    /\ moved' = [moved EXCEPT ![p] = {}]
    /\ sawWrite' = [sawWrite EXCEPT ![p] = {}]
    /\ runs' = runs + 1
    /\ UNCHANGED <<diskVars, lastArchive, wrote, lastWriter>>

\* One invocation of either installer.
Start(p) ==
    /\ p = 1
    /\ pc[p] = "idle"
    /\ \E a \in Args : Begin(p, a)

\* The archive installer, invoked again when the previous invocation ended.
StartAgain(p) ==
    /\ p = 1
    /\ pc[p] \in {"idle", "done", "crashed"}
    /\ runs < MaxRuns
    /\ \E a \in Args : a.kind = "link" /\ Begin(p, a)

\* Two invocations of the scrape installer with distinct pack names,
\* started at any time.
StartConc(p) ==
    /\ pc[p] = "idle"
    /\ \E a \in Args :
          /\ a.kind = "html"
          /\ \A q \in Procs \ {p} : args[q].pack_name # a.pack_name
          /\ Begin(p, a)

----------------------------------------------------------------------------
(* download_and_install_ftb_pack_from_link *)

\* line 21
InvalidLink(pack_url) ==
    ~endswith(pack_url, ".zip") \/ ~startswith(pack_url, "http")

\* lines 21-23
RejectUrl(p) ==
    /\ pc[p] = "check"
    /\ InvalidLink(args[p].pack_url)
    /\ Say(p, "Invalid direct download link", args[p].pack_url)
    /\ Goto(p, "done")
    /\ UNCHANGED <<args, exc, profiles_data, mod_links, idx, processed, start,
                   net, moved, sawWrite, diskVars, histVars>>

\* lines 25-32
MakeInstanceDirs(p) ==
    /\ pc[p] = "check"
    /\ ~InvalidLink(args[p].pack_url)
    /\ fs' = fs \cup {minecraft_path, instances_dir, pack_instance_dir(p)}
    /\ Goto(p, "download")
    /\ UNCHANGED <<args, out, exc, profiles_data, mod_links, idx, processed,
                   start, net, moved, sawWrite, zip_file, registry, backup,
                   histVars>>

\* urllib opens http and https URLs only; any other URL raises before a
\* request is sent.
Requested(p, url) ==
    net' = [net EXCEPT ![p] = IF IsHttpScheme(url) THEN @ \cup {url} ELSE @]

\* lines 37-38: urlretrieve returns
DownloadPack(p) ==
    /\ pc[p] = "download"
    /\ IsHttpScheme(args[p].pack_url)
    /\ Requested(p, args[p].pack_url)
    /\ \E a \in Archives \cup {NotAZip} :
          zip_file' = [zip_file EXCEPT ![args[p].pack_name] = a]
    /\ fs' = fs \cup {zip_file_path(p)}
    /\ Goto(p, "extract")
    /\ UNCHANGED <<args, out, exc, profiles_data, mod_links, idx, processed,
                   start, moved, sawWrite, registry, backup, histVars>>

\* Variant: the handler of line 39 does not return.
AfterDownloadError_Continues(p) == Goto(p, "extract")

\* line 41
AfterDownloadError(p) == Goto(p, "done")

\* lines 39-41: urlretrieve raises, before or after it began to write pack.zip
DownloadPackFails(p) ==
    /\ pc[p] = "download"
    /\ Requested(p, args[p].pack_url)
    /\ \/ UNCHANGED <<fs, zip_file>>
       \/ /\ IsHttpScheme(args[p].pack_url)
          /\ zip_file' = [zip_file EXCEPT ![args[p].pack_name] = PartialZip]
          /\ fs' = fs \cup {zip_file_path(p)}
    /\ Say(p, "Error downloading pack", args[p].pack_url)
    /\ AfterDownloadError(p)
    /\ UNCHANGED <<args, exc, profiles_data, mod_links, idx, processed, start,
                   moved, sawWrite, registry, backup, histVars>>

\* Paths extractall creates for the first n members of an archive.
Extracted(dir, a, n) ==
    LET members == {a[i] : i \in 1..n}
    IN  {Join(dir, m.dir) : m \in {x \in members : x.dir # ""}}
        \cup {IF m.dir = "" THEN Join(dir, m.name)
              ELSE Join(Join(dir, m.dir), m.name) : m \in members}

\* lines 45-47
ExtractPack(p) ==
    /\ pc[p] = "extract"
    /\ zip_file[args[p].pack_name] \in Archives
    /\ LET a == zip_file[args[p].pack_name]
       IN  fs' = fs \cup Extracted(pack_instance_dir(p), a, Len(a))
    /\ Goto(p, "mktargets")
    /\ UNCHANGED <<args, out, exc, profiles_data, mod_links, idx, processed,
                   start, net, moved, sawWrite, zip_file, registry, backup,
                   histVars>>

\* lines 48-50: pack.zip is no archive, or extractall stops part-way
ExtractPackFails(p) ==
    /\ pc[p] = "extract"
    /\ LET a == zip_file[args[p].pack_name]
       IN  \E n \in 0..(Len(a) - 1) :
              /\ a \notin Archives => n = 0
              /\ fs' = fs \cup Extracted(pack_instance_dir(p), a, n)
    /\ Say(p, "Error extracting pack", "")
    /\ Goto(p, "done")
    /\ UNCHANGED <<args, exc, profiles_data, mod_links, idx, processed, start,
                   net, moved, sawWrite, zip_file, registry, backup, histVars>>

\* lines 59-61
MakeTargetDirs(p) ==
    /\ pc[p] = "mktargets"
    /\ fs' = fs \cup {TargetRoot(p), Join(TargetRoot(p), "mods"),
                      Join(TargetRoot(p), "config")}
    /\ Goto(p, "mods")
    /\ UNCHANGED <<args, out, exc, profiles_data, mod_links, idx, processed,
                   start, net, moved, sawWrite, zip_file, registry, backup,
                   histVars>>

\* source_dir.iterdir()
Children(dir) == {x \in fs : x = Join(dir, PathName(x))}

Folders == {"mods", "config", "libraries"}

\* shutil.move(src, dst) with dst an existing directory moves src to
\* dst/basename(src), and raises shutil.Error when that path exists.
MoveDestination(p, item) == Join(Join(TargetRoot(p), pc[p]), PathName(item))
DestinationExists(p, item) == MoveDestination(p, item) \in fs

\* lines 65-66, 70-71, 79-80: one iteration
MoveItem(p) ==
    /\ pc[p] \in Folders
    /\ \E item \in Children(Join(pack_instance_dir(p), pc[p])) :
          /\ ~DestinationExists(p, item)
          /\ fs' = (fs \ {item}) \cup {MoveDestination(p, item)}
          /\ moved' = [moved EXCEPT ![p] = @ \cup {item}]
    /\ UNCHANGED <<pc, args, out, exc, profiles_data, mod_links, idx, processed,
                   start, net, sawWrite, zip_file, registry, backup, histVars>>

\* lines 66, 71, 80: shutil.move raises, nothing catches it
MoveItemRaises(p) ==
    /\ pc[p] \in Folders
    /\ \E item \in Children(Join(pack_instance_dir(p), pc[p])) :
          DestinationExists(p, item)
    /\ Raise(p, "shutil.Error")
    /\ UNCHANGED <<args, out, profiles_data, mod_links, idx, processed, start,
                   net, moved, sawWrite, diskVars, histVars>>

\* lines 63, 68, 77: the folder is absent or the loop is over
MoveFolderDone(p) ==
    /\ pc[p] \in Folders
    /\ Children(Join(pack_instance_dir(p), pc[p])) = {}
    /\ Goto(p, CASE pc[p] = "mods" -> "config"
                 [] pc[p] = "config" -> "mklibraries"
                 [] pc[p] = "libraries" -> "read")
    /\ UNCHANGED <<args, out, exc, profiles_data, mod_links, idx, processed,
                   start, net, moved, sawWrite, diskVars, histVars>>

\* lines 74-76
MakeLibrariesDir(p) ==
    /\ pc[p] = "mklibraries"
    /\ fs' = fs \cup {Join(TargetRoot(p), "libraries")}
    /\ Goto(p, "libraries")
    /\ UNCHANGED <<args, out, exc, profiles_data, mod_links, idx, processed,
                   start, net, moved, sawWrite, zip_file, registry, backup,
                   histVars>>

----------------------------------------------------------------------------
(* download_and_install_ftb_pack_from_html *)

\* line 141
IsModLink(href) ==
    href # "" /\ (endswith(href, ".jar") \/ endswith(href, ".zip"))

\* lines 138-142
CollectLinks(anchors) == SelectSeq(anchors, IsModLink)

\* lines 130-132, 137-142
ParseHtml(p) ==
    /\ pc[p] = "parse"
    /\ HtmlReadable(args[p].html_file_path)
    /\ mod_links' = [mod_links EXCEPT ![p] =
                        CollectLinks(HtmlAnchors(args[p].html_file_path))]
    /\ Goto(p, "mkmods")
    /\ UNCHANGED <<args, out, exc, profiles_data, idx, processed, start, net,
                   moved, sawWrite, diskVars, histVars>>

\* lines 133-135
ParseHtmlFails(p) ==
    /\ pc[p] = "parse"
    /\ ~HtmlReadable(args[p].html_file_path)
    /\ Say(p, "Error parsing HTML file", args[p].html_file_path)
    /\ Goto(p, "done")
    /\ UNCHANGED <<args, exc, profiles_data, mod_links, idx, processed, start,
                   net, moved, sawWrite, diskVars, histVars>>

\* lines 145-147
MakeModsDir(p) ==
    /\ pc[p] = "mkmods"
    /\ fs' = fs \cup {minecraft_path, mods_dir}
    /\ Goto(p, "links")
    /\ UNCHANGED <<args, out, exc, profiles_data, mod_links, idx, processed,
                   start, net, moved, sawWrite, zip_file, registry, backup,
                   histVars>>

\* Variant: the iteration ends the run.
NextLink_Returns(p) ==
    /\ idx' = [idx EXCEPT ![p] = @ + 1]
    /\ processed' = [processed EXCEPT ![p] = Append(@, mod_links[p][idx[p]])]
    /\ Goto(p, "done")

\* end of one iteration of the loop of line 149
NextLink(p) ==
    /\ idx' = [idx EXCEPT ![p] = @ + 1]
    /\ processed' = [processed EXCEPT ![p] = Append(@, mod_links[p][idx[p]])]
    /\ UNCHANGED pc

InLoop(p) == pc[p] = "links" /\ idx[p] <= Len(mod_links[p])

\* lines 151-157: shutil.copy2 returns or raises
CopyMod(p) ==
    /\ InLoop(p)
    /\ LET link == mod_links[p][idx[p]]
       IN  /\ link \in LocalFiles
           /\ \/ /\ fs' = fs \cup {Join(mods_dir, PathName(link))}
                 /\ Say(p, "Mod copied", link)
              \/ /\ UNCHANGED fs
                 /\ Say(p, "Error copying mod", link)
    /\ NextLink(p)
    /\ UNCHANGED <<args, exc, profiles_data, mod_links, start, net, moved,
                   sawWrite, zip_file, registry, backup, histVars>>

\* lines 158-174: the request raises, answers another status than 200,
\* answers 200 and the body is written, or the body stops part-way
DownloadMod(p) ==
    /\ InLoop(p)
    /\ LET link == mod_links[p][idx[p]]
       IN  /\ link \notin LocalFiles
           /\ startswith(link, "http")
           /\ Requested(p, link)
           /\ \/ /\ UNCHANGED fs
                 /\ Say(p, "Error downloading mod", link)
              \/ /\ UNCHANGED fs
                 /\ Say(p, "Failed to download mod", link)
              \/ /\ fs' = fs \cup {Join(mods_dir, PathName(link))}
                 /\ Say(p, "Mod downloaded", PathName(link))
              \/ /\ fs' = fs \cup {Join(mods_dir, PathName(link))}
                 /\ Say(p, "Error downloading mod", link)
    /\ NextLink(p)
    /\ UNCHANGED <<args, exc, profiles_data, mod_links, start, moved, sawWrite,
                   zip_file, registry, backup, histVars>>

\* lines 175-176
UnsupportedLink(p) ==
    /\ InLoop(p)
    /\ LET link == mod_links[p][idx[p]]
       IN  /\ link \notin LocalFiles
           /\ ~startswith(link, "http")
           /\ Say(p, "Unsupported link type", link)
    /\ NextLink(p)
    /\ UNCHANGED <<args, exc, profiles_data, mod_links, start, net, moved,
                   sawWrite, diskVars, histVars>>

\* line 149: the loop is over
LinksDone(p) ==
    /\ pc[p] = "links"
    /\ idx[p] > Len(mod_links[p])
    /\ Goto(p, "read")
    /\ UNCHANGED <<args, out, exc, profiles_data, mod_links, idx, processed,
                   start, net, moved, sawWrite, diskVars, histVars>>

----------------------------------------------------------------------------
(* The update of launcher_profiles.json: lines 82-117 and 178-214 *)

\* lines 84-88, 181-185: the file is absent, or json.load returns
ReadProfiles(p) ==
    /\ pc[p] = "read"
    /\ \/ /\ registry = Absent
          /\ profiles_data' = [profiles_data EXCEPT ![p] = MemDoc(DefaultDoc)]
       \/ /\ registry # Absent
          /\ json_load(registry) # JSONDecodeError
          /\ profiles_data' = [profiles_data EXCEPT ![p] = json_load(registry)]
    /\ sawWrite' = [sawWrite EXCEPT ![p] = wrote]
    /\ Goto(p, "input")
    /\ UNCHANGED <<args, out, exc, mod_links, idx, processed, start, net,
                   moved, diskVars, histVars>>

\* lines 89-90, 186-187: json.load raises JSONDecodeError
ReadProfilesFails(p) ==
    /\ pc[p] = "read"
    /\ registry # Absent
    /\ json_load(registry) = JSONDecodeError
    /\ Say(p, "Error decoding launcher_profiles.json", "")
    /\ sawWrite' = [sawWrite EXCEPT ![p] = wrote]
    /\ Goto(p, "backup")
    /\ UNCHANGED <<args, exc, profiles_data, mod_links, idx, processed, start,
                   net, moved, diskVars, histVars>>

\* Variant: an existing destination is left as it is.
copyfile_KeepsOld(src, dst) == IF dst = Absent THEN src ELSE dst

\* shutil.copyfile(profiles_path, str(profiles_path) + ".bak"): the content
\* of dst after the call
copyfile(src, dst) == src

\* lines 91-92, 188-189
BackupProfiles(p) ==
    /\ pc[p] = "backup"
    /\ backup' = copyfile(registry, backup)
    /\ profiles_data' = [profiles_data EXCEPT ![p] = MemDoc(DefaultDoc)]
    /\ Goto(p, "input")
    /\ UNCHANGED <<args, out, exc, mod_links, idx, processed, start, net,
                   moved, sawWrite, fs, zip_file, registry, histVars>>

\* lines 98-108, 195-205
NewProfile(p, profile_version) ==
    Entry(args[p].pack_name, "custom", profile_version, GameDir(p))

\* line 95, 192
profile_id(p) == args[p].pack_name

\* lines 94-108, 191-205: the prompt, then the assignment
SetProfile(p) ==
    /\ pc[p] = "input"
    /\ HasProfilesMapping(profiles_data[p])
    /\ \E profile_version \in Versions :
          /\ Say(p, "Input Minecraft version for modpack", profile_version)
          /\ profiles_data' = [profiles_data EXCEPT ![p] =
                 MemDoc(SetProfileEntry(@.doc, profile_id(p),
                                        NewProfile(p, profile_version)))]
    /\ Goto(p, "open")
    /\ UNCHANGED <<args, exc, mod_links, idx, processed, start, net, moved,
                   sawWrite, diskVars, histVars>>

\* lines 98, 195: the assignment raises KeyError or TypeError, nothing
\* catches it
SetProfileRaises(p) ==
    /\ pc[p] = "input"
    /\ ~HasProfilesMapping(profiles_data[p])
    /\ \E profile_version \in Versions :
          Say(p, "Input Minecraft version for modpack", profile_version)
    /\ Raise(p, "KeyError or TypeError")
    /\ UNCHANGED <<args, profiles_data, mod_links, idx, processed, start, net,
                   moved, sawWrite, diskVars, histVars>>

\* open(profiles_path, 'w') creates the file or cuts it to length 0
OpenedForWriting(c) == EmptyFile

\* lines 111, 208
OpenProfiles(p) ==
    /\ pc[p] = "open"
    /\ registry' = OpenedForWriting(registry)
    /\ Goto(p, "dump")
    /\ UNCHANGED <<args, out, exc, profiles_data, mod_links, idx, processed,
                   start, net, moved, sawWrite, fs, zip_file, backup, histVars>>

\* lines 111, 113-115 and 208, 210-212: open raises
OpenProfilesFails(p) ==
    /\ pc[p] = "open"
    /\ Say(p, "Error writing to launcher_profiles.json", "")
    /\ Goto(p, "done")
    /\ UNCHANGED <<args, exc, profiles_data, mod_links, idx, processed, start,
                   net, moved, sawWrite, diskVars, histVars>>

\* lines 112, 117 and 209, 214
DumpProfiles(p) ==
    /\ pc[p] = "dump"
    /\ registry' = WriteAt0(registry, json_dump(profiles_data[p].doc))
    /\ Say(p, "installed successfully", args[p].pack_name)
    /\ Goto(p, "done")
    /\ wrote' = wrote \cup {p}
    /\ lastWriter' = p
    /\ lastArchive' = IF args[p].kind = "link"
                      THEN [lastArchive EXCEPT ![args[p].pack_name] =
                               zip_file[args[p].pack_name]]
                      ELSE lastArchive
    /\ UNCHANGED <<args, exc, profiles_data, mod_links, idx, processed, start,
                   net, moved, sawWrite, fs, zip_file, backup, runs>>

\* lines 112-115 and 209-212: the write raises with only a part of the
\* document (possibly none of it) written
DumpProfilesFails(p) ==
    /\ pc[p] = "dump"
    /\ registry' = WriteAt0(registry, PartialFile(profiles_data[p].doc))
    /\ Say(p, "Error writing to launcher_profiles.json", "")
    /\ Goto(p, "done")
    /\ UNCHANGED <<args, exc, profiles_data, mod_links, idx, processed, start,
                   net, moved, sawWrite, fs, zip_file, backup, histVars>>

----------------------------------------------------------------------------
(* Specifications *)

LinkStep(p) ==
    \/ RejectUrl(p) \/ MakeInstanceDirs(p)
    \/ DownloadPack(p) \/ DownloadPackFails(p)
    \/ ExtractPack(p) \/ ExtractPackFails(p)
    \/ MakeTargetDirs(p) \/ MoveItem(p) \/ MoveItemRaises(p)
    \/ MoveFolderDone(p) \/ MakeLibrariesDir(p)

HtmlStep(p) ==
    \/ ParseHtml(p) \/ ParseHtmlFails(p) \/ MakeModsDir(p)
    \/ CopyMod(p) \/ DownloadMod(p) \/ UnsupportedLink(p) \/ LinksDone(p)

UpdateStep(p) ==
    \/ ReadProfiles(p) \/ ReadProfilesFails(p) \/ BackupProfiles(p)
    \/ SetProfile(p) \/ SetProfileRaises(p)
    \/ OpenProfiles(p) \/ OpenProfilesFails(p)
    \/ DumpProfiles(p) \/ DumpProfilesFails(p)

Next == \E p \in Procs : Start(p) \/ LinkStep(p) \/ HtmlStep(p) \/ UpdateStep(p)

Spec == Init /\ [][Next]_vars

NextRerun == \E p \in Procs : StartAgain(p) \/ LinkStep(p) \/ UpdateStep(p)

\* A fresh launcher directory.
InitFresh == Init /\ fs = {minecraft_path}

SpecRerun == InitFresh /\ [][NextRerun]_vars

NextConc == \E p \in Procs : StartConc(p) \/ HtmlStep(p) \/ UpdateStep(p)

\* A fresh launcher directory without a backup file.
InitConc == InitFresh /\ backup = Absent

SpecConc == InitConc /\ [][NextConc]_vars

----------------------------------------------------------------------------
(* Properties *)

Printed(p, msg) == \E i \in 1..Len(out[p]) : out[p][i][1] = msg
LastPrinted(p) == IF out[p] = <<>> THEN "" ELSE out[p][Len(out[p])][1]
Succeeded(p) == pc[p] = "done" /\ LastPrinted(p) = "installed successfully"
Ended(p) == pc[p] \in {"done", "crashed"}
\* The answer given to the version prompt.
Answer(p) ==
    LET i == CHOOSE j \in 1..Len(out[p]) :
                 out[p][j][1] = "Input Minecraft version for modpack"
    IN  out[p][i][2]
Corrupt(c) == c # Absent /\ json_load(c) = JSONDecodeError
ProfilesOf(c) == c.doc.profiles
InstanceGameDir(name) == minecraft_path \o "/instances/" \o name \o "/minecraft"

\* C1: a run of the archive installer on a URL that does not end in .zip or
\* does not start with the scheme http:// or https:// only prints its
\* message: it creates no file or directory, writes neither the registry nor
\* the backup, and sends no network request.
C1_InvalidUrlHasNoSideEffect ==
    \A p \in Procs :
        (/\ args[p].kind = "link"
         /\ ~endswith(args[p].pack_url, ".zip") \/ ~IsHttpScheme(args[p].pack_url))
        => /\ pc[p] \in {"check", "done"}
           /\ fs = start[p].fs
           /\ registry = start[p].registry
           /\ backup = start[p].backup
           /\ net[p] = {}
           /\ pc[p] = "done" => LastPrinted(p) = "Invalid direct download link"

\* C2: after a successful run of the archive installer for pack name P the
\* registry is a document with an entry keyed P whose gameDir is
\* instances/P/minecraft under the target root, and every other entry the
\* registry had before the run is present and unchanged.
C2_SuccessfulRunRegistersProfile ==
    \A p \in Procs :
        (args[p].kind = "link" /\ Succeeded(p))
        => /\ registry.shape = "doc"
           /\ args[p].pack_name \in DOMAIN ProfilesOf(registry)
           /\ ProfilesOf(registry)[args[p].pack_name].name = args[p].pack_name
           /\ ProfilesOf(registry)[args[p].pack_name].gameDir
                 = InstanceGameDir(args[p].pack_name)
           /\ start[p].registry.shape = "doc" =>
                 \A q \in (DOMAIN ProfilesOf(start[p].registry)) \ {args[p].pack_name} :
                    /\ q \in DOMAIN ProfilesOf(registry)
                    /\ ProfilesOf(registry)[q] = ProfilesOf(start[p].registry)[q]

C2_Witness ==
    \E p \in Procs :
        /\ args[p].kind = "link" /\ Succeeded(p)
        /\ moved[p] # {}
        /\ start[p].registry.shape = "doc"
        /\ "Vanilla" \in DOMAIN ProfilesOf(start[p].registry)
        /\ args[p].pack_name \notin DOMAIN ProfilesOf(start[p].registry)

\* What the registry file holds after a run that found it corrupt: the
\* default document with the new entry alone.
IsDefaultWithNewEntry(p) ==
    /\ registry.shape = "doc"
    /\ registry.doc.settings = "empty"
    /\ registry.doc.version = 2
    /\ DOMAIN ProfilesOf(registry) = {args[p].pack_name}
    /\ ProfilesOf(registry)[args[p].pack_name]
          = Entry(args[p].pack_name, "custom", Answer(p),
                  IF args[p].kind = "link"
                  THEN InstanceGameDir(args[p].pack_name) ELSE minecraft_path)

C4_DownloadOrExtractFailureAborts ==
    \A p \in Procs :
        (/\ args[p].kind = "link"
         /\ Printed(p, "Error downloading pack") \/ Printed(p, "Error extracting pack"))
        => /\ pc[p] = "done"
           /\ LastPrinted(p) \in {"Error downloading pack", "Error extracting pack"}
           /\ moved[p] = {}
           /\ ~Printed(p, "Input Minecraft version for modpack")
           /\ registry = start[p].registry
           /\ backup = start[p].backup
           /\ start[p].fs \subseteq fs
           /\ minecraft_path \o "/instances/" \o args[p].pack_name \in fs

C4_Witness ==
    \E p \in Procs :
        /\ args[p].kind = "link"
        /\ Printed(p, "Error extracting pack")
        /\ start[p].fs = {minecraft_path}
        /\ minecraft_path \o "/instances/" \o args[p].pack_name \o "/mods/a.jar" \in fs
        /\ minecraft_path \o "/instances/" \o args[p].pack_name \o "/pack.zip" \in fs

LinkMessages ==
    {"Mod copied", "Error copying mod", "Mod downloaded",
     "Failed to download mod", "Error downloading mod", "Unsupported link type"}
IsLinkMessage(m) == m[1] \in LinkMessages

\* C5: in the scrape installer, once the document is parsed, the loop handles
\* the collected links one by one in document order, each with one report;
\* the run cannot end before every link was handled and the registry update
\* was reached, and a successful update registers the profile with gameDir
\* equal to the target root.
C5_EveryLinkProcessedThenUpdate ==
    \A p \in Procs :
        (args[p].kind = "html" /\ ~Printed(p, "Error parsing HTML file"))
        => /\ pc[p] \notin {"parse", "mkmods"} =>
                 mod_links[p] = SelectSeq(HtmlAnchors(args[p].html_file_path),
                                          IsModLink)
           /\ pc[p] = "links" =>
                 processed[p] = SubSeq(mod_links[p], 1, idx[p] - 1)
           /\ Len(SelectSeq(out[p], IsLinkMessage)) = Len(processed[p])
           /\ pc[p] \notin {"parse", "mkmods", "links"} =>
                 processed[p] = mod_links[p]
           /\ Ended(p) => Printed(p, "Input Minecraft version for modpack")
           /\ Succeeded(p) =>
                 /\ registry.shape = "doc"
                 /\ args[p].pack_name \in DOMAIN ProfilesOf(registry)
                 /\ ProfilesOf(registry)[args[p].pack_name].gameDir = minecraft_path

C5_Witness ==
    \E p \in Procs :
        /\ args[p].kind = "html" /\ Succeeded(p)
        /\ HtmlAnchors(args[p].html_file_path)
              = <<"/l/a.jar", "http://u/b.zip", "n.txt">>
        /\ processed[p] = <<"/l/a.jar", "http://u/b.zip">>
        /\ Printed(p, "Mod copied")
        /\ Printed(p, "Error downloading mod")
        /\ minecraft_path \o "/mods/a.jar" \in fs

\* C6: when the archive installer completes for a pack name that already had
\* an entry in the registry, the registry has the same profile names as
\* before the run and the entry of that name holds the values of this run.
C6_RerunOverwritesEntry ==
    \A p \in Procs :
        (/\ args[p].kind = "link" /\ Succeeded(p)
         /\ start[p].registry.shape = "doc"
         /\ args[p].pack_name \in DOMAIN ProfilesOf(start[p].registry))
        => /\ registry.shape = "doc"
           /\ DOMAIN ProfilesOf(registry) = DOMAIN ProfilesOf(start[p].registry)
           /\ ProfilesOf(registry)[args[p].pack_name]
                 = Entry(args[p].pack_name, "custom", Answer(p),
                         InstanceGameDir(args[p].pack_name))

C6_Witness ==
    \E p \in Procs :
        /\ args[p].kind = "link" /\ Succeeded(p)
        /\ runs = 2
        /\ start[p].registry.shape = "doc"
        /\ start[p].registry.fmt = "indent4"
        /\ args[p].pack_name \in DOMAIN ProfilesOf(start[p].registry)
        /\ ProfilesOf(start[p].registry)[args[p].pack_name].gameDir
              = InstanceGameDir(args[p].pack_name)
        /\ ProfilesOf(start[p].registry)[args[p].pack_name].lastVersionId # Answer(p)

\* C7: when the registry held a document before the run, then from the
\* write step on the registry file holds that complete document or the
\* complete new document.
C7_WriteIsAtomic ==
    \A p \in Procs :
        (pc[p] \in {"dump", "done", "crashed"} /\ start[p].registry.shape = "doc")
        => \/ registry = start[p].registry
           \/ /\ profiles_data[p].shape = "doc"
              /\ registry = json_dump(profiles_data[p].doc)

Other(p) == CHOOSE q \in Procs : q # p

\* C8: when two interleaved runs with distinct pack names have both ended
\* with their success message, the registry file is the document of the run
\* that completed its write last: it has that run's entry, and it has the
\* other run's entry only if the last writer read the registry after the
\* other run had written.
C8_LastWriterWins ==
    (\A p \in Procs : Succeeded(p))
    => LET w == lastWriter
           o == Other(lastWriter)
       IN  /\ registry = json_dump(profiles_data[w].doc)
           /\ args[w].pack_name \in DOMAIN ProfilesOf(registry)
           /\ (/\ args[o].pack_name \in DOMAIN ProfilesOf(registry)
               /\ Printed(o, "Input Minecraft version for modpack")
               /\ ProfilesOf(registry)[args[o].pack_name]
                     = Entry(args[o].pack_name, "custom", Answer(o), minecraft_path))
              => o \in sawWrite[w]

\* C9: a run of the archive installer for a pack name and an archive that an
\* earlier successful run has already installed does not fail in the
\* relocation step.
C9_SecondRunRelocates ==
    \A p \in Procs :
        (/\ args[p].kind = "link"
         /\ lastArchive[args[p].pack_name] \in Archives
         /\ zip_file[args[p].pack_name] = lastArchive[args[p].pack_name])
        => ~(pc[p] = "crashed" /\ exc[p] = "shutil.Error")

\* C10: a run that reached the registry update ends with the document
\* written or with a reported write failure.
C10_UpdateEndsHandled ==
    \A p \in Procs :
        (Ended(p) /\ Printed(p, "Input Minecraft version for modpack"))
        => /\ pc[p] = "done"
           /\ LastPrinted(p) \in {"installed successfully",
                                  "Error writing to launcher_profiles.json"}

====
